---- MODULE Spec2Model ----
(***************************************************************************)
(* Model of autometrics/src/otel_push_exporter.rs: the OpenTelemetry push  *)
(* exporter initialisers, the OtelMeterProvider handle (Deref + Drop) and  *)
(* the resolution of timeout and period from the process environment.      *)
(*                                                                         *)
(* Representation choices:                                                 *)
(*  - a Rust String is a sequence of one-character strings;                *)
(*  - a u64 is its canonical decimal digit sequence (<<0>> is zero, no     *)
(*    leading zero otherwise), so that the values up to 2^64 - 1 and the   *)
(*    overflow of the checked arithmetic of str::parse are exact;          *)
(*  - a Duration built by Duration::from_secs is [secs |-> u64];           *)
(*  - an Option<OsString> read from the environment is a record           *)
(*    [kind, str] with kind "unset", "not_unicode" or "unicode".           *)
(***************************************************************************)
EXTENDS Integers, Sequences, FiniteSets, TLC

VARIABLES
    env,        \* the process environment: the two variables the module reads
    handles,    \* the OtelMeterProvider values handed out, by slot
    providers,  \* the SdkMeterProvider each handle wraps, by provider id
    manual,     \* per handle: shutdown calls the caller made through Deref
    last        \* the last call made into the module and what it returned

vars == <<env, handles, providers, manual, last>>

---------------------------------------------------------------------------
(* Bounds of the model *)

\* longest environment value enumerated character by character
MaxLen == 2
\* handles that may be initialised in one behaviour
MaxHandles == 2
\* manual shutdown calls the caller makes through one handle
MaxManual == 2

---------------------------------------------------------------------------
(* Strings and u64 *)

DigitValue ==
    ("0" :> 0) @@ ("1" :> 1) @@ ("2" :> 2) @@ ("3" :> 3) @@ ("4" :> 4) @@
    ("5" :> 5) @@ ("6" :> 6) @@ ("7" :> 7) @@ ("8" :> 8) @@ ("9" :> 9)

IsDigit(c) == c \in DOMAIN DigitValue

\* u64::MAX = 18446744073709551615
U64_MAX == <<1,8,4,4,6,7,4,4,0,7,3,7,0,9,5,5,1,6,1,5>>

RECURSIVE LexLeq(_, _)
LexLeq(a, b) ==
    IF a = <<>> THEN TRUE
    ELSE IF Head(a) < Head(b) THEN TRUE
    ELSE IF Head(a) > Head(b) THEN FALSE
    ELSE LexLeq(Tail(a), Tail(b))

\* a <= b on canonical digit sequences
U64Leq(a, b) ==
    \/ Len(a) < Len(b)
    \/ Len(a) = Len(b) /\ LexLeq(a, b)

\* result.checked_mul(10)?.checked_add(d)? : not ok when past u64::MAX
CheckedMulAdd(x, d) ==
    LET r == IF x = <<0>> THEN <<d>> ELSE Append(x, d)
    IN  IF U64Leq(r, U64_MAX) THEN [ok |-> TRUE, val |-> r]
        ELSE [ok |-> FALSE, val |-> <<0>>]

RECURSIVE ParseDigits(_, _)
ParseDigits(s, acc) ==
    IF s = <<>> THEN [ok |-> TRUE, val |-> acc]
    ELSE IF ~IsDigit(Head(s)) THEN [ok |-> FALSE, val |-> <<0>>]
    ELSE LET r == CheckedMulAdd(acc, DigitValue[Head(s)])
         IN  IF ~r.ok THEN [ok |-> FALSE, val |-> <<0>>]
             ELSE ParseDigits(Tail(s), r.val)

\* <u64 as FromStr>::from_str: Err on the empty string and on a lone sign, one
\* leading "+" is skipped, "-" is no digit of an unsigned type, every other
\* character must be an ASCII digit, and the value must fit in 64 bits.
U64FromStr(s) ==
    IF s = <<>> THEN [ok |-> FALSE, val |-> <<0>>]
    ELSE IF Len(s) = 1 /\ Head(s) \in {"+", "-"} THEN [ok |-> FALSE, val |-> <<0>>]
    ELSE IF Head(s) = "+" THEN ParseDigits(Tail(s), <<0>>)
    ELSE ParseDigits(s, <<0>>)

Duration_from_secs(n) == [secs |-> n]

---------------------------------------------------------------------------
(* The environment *)

OTEL_EXPORTER_TIMEOUT_ENV == "OTEL_METRIC_EXPORT_TIMEOUT"
OTEL_EXPORTER_INTERVAL_ENV == "OTEL_METRIC_EXPORT_INTERVAL"

EnvNames == {OTEL_EXPORTER_TIMEOUT_ENV, OTEL_EXPORTER_INTERVAL_ENV}

Unset == [kind |-> "unset", str |-> <<>>]
NotUnicode == [kind |-> "not_unicode", str |-> <<>>]
Unicode(s) == [kind |-> "unicode", str |-> s]

\* OTEL_EXPORTER_OTLP_TIMEOUT_DEFAULT.as_secs(): the transport library's
\* default timeout, 10 seconds
OTLP_TIMEOUT_DEFAULT_SECS == <<1, 0>>
\* the literal 60 of the period's unwrap_or
PERIOD_DEFAULT_SECS == <<6, 0>>

\* mutant: a value of zero seconds is taken for no value at all
SecsFromEnvOr_nonzero(e, name, default) ==
    LET v == e[name]
    IN  IF v.kind # "unicode" THEN default
        ELSE LET p == U64FromStr(v.str)
             IN  IF p.ok /\ p.val # <<0>> THEN p.val ELSE default

\* std::env::var_os(name).and_then(into_string().ok()).and_then(parse().ok())
\*     .unwrap_or(default)
SecsFromEnvOr(e, name, default) ==
    LET v == e[name]
    IN  IF v.kind # "unicode" THEN default
        ELSE LET p == U64FromStr(v.str)
             IN  IF p.ok THEN p.val ELSE default

\* mutant: one unusable variable sends both values to their defaults
timeout_and_period_coupled(e) ==
    LET bad(name) == e[name].kind = "unicode" /\ ~U64FromStr(e[name].str).ok
        anyBad == bad(OTEL_EXPORTER_TIMEOUT_ENV) \/ bad(OTEL_EXPORTER_INTERVAL_ENV)
        unset == [n \in {OTEL_EXPORTER_TIMEOUT_ENV, OTEL_EXPORTER_INTERVAL_ENV} |->
                     [kind |-> "unset", str |-> <<>>]]
        f == IF anyBad THEN unset ELSE e
    IN  <<Duration_from_secs(
              SecsFromEnvOr(f, OTEL_EXPORTER_TIMEOUT_ENV, OTLP_TIMEOUT_DEFAULT_SECS)),
          Duration_from_secs(
              SecsFromEnvOr(f, OTEL_EXPORTER_INTERVAL_ENV, PERIOD_DEFAULT_SECS))>>

timeout_and_period_from_env_or_default(e) ==
    LET timeout == Duration_from_secs(
            SecsFromEnvOr(e, OTEL_EXPORTER_TIMEOUT_ENV, OTLP_TIMEOUT_DEFAULT_SECS))
        period == Duration_from_secs(
            SecsFromEnvOr(e, OTEL_EXPORTER_INTERVAL_ENV, PERIOD_DEFAULT_SECS))
    IN  <<timeout, period>>

---------------------------------------------------------------------------
(* The external SDK, as the module configures and calls it *)

NoProvider ==
    [exists |-> FALSE, transport |-> "none", endpoint |-> "none",
     protocol |-> "none", timeout |-> Duration_from_secs(<<0>>),
     interval |-> Duration_from_secs(<<0>>), running |-> FALSE,
     is_shutdown |-> FALSE, shutdownCalls |-> 0, stops |-> 0]

\* ExportConfig { endpoint: Some(url), protocol: Protocol::HttpBinary,
\*                timeout: Some(timeout), ..Default::default() }
ExportConfig(url, timeout) ==
    [endpoint |-> url, protocol |-> "HttpBinary", timeout |-> timeout]

\* MetricExporter::builder().with_http() / .with_tonic()
\*     .with_export_config(config).build(): the library accepts the
\*     configuration (buildOk) or answers ExporterBuildError
MetricExporterBuild(transport, config, buildOk) ==
    [ok |-> buildOk, transport |-> transport, config |-> config]

\* PeriodicReader::builder(exporter).with_interval(period).build()
PeriodicReaderBuild(exporter, period) ==
    [exporter |-> exporter, interval |-> period]

\* runtime(): SdkMeterProvider::builder(), a builder with no reader yet
runtime == [readers |-> <<>>]

\* builder.with_reader(reader).build(): a provider that is not shut down and
\* whose periodic reader runs
MeterProviderBuild(builder, reader) ==
    LET r == Head(Append(builder.readers, reader))
    IN  [exists |-> TRUE, transport |-> r.exporter.transport,
         endpoint |-> r.exporter.config.endpoint,
         protocol |-> r.exporter.config.protocol,
         timeout |-> r.exporter.config.timeout,
         interval |-> r.interval, running |-> TRUE,
         is_shutdown |-> FALSE, shutdownCalls |-> 0, stops |-> 0]

\* SdkMeterProvider::shutdown(&self): the first call stops the reader and
\* answers what the final flush gave (sdkOk); every later call is an error
\* ("this will only error if `.shutdown` gets called multiple times").
\* shutdownCalls counts the invocations the provider received, stops the
\* invocations that got past the library's guard and stopped the reader.
SdkShutdown(p, sdkOk) ==
    IF p.is_shutdown
    THEN [provider |-> [p EXCEPT !.shutdownCalls = @ + 1],
          result |-> "Err(AlreadyShutdown)"]
    ELSE [provider |-> [p EXCEPT !.is_shutdown = TRUE, !.running = FALSE,
                                 !.shutdownCalls = @ + 1, !.stops = @ + 1],
          result |-> IF sdkOk THEN "Ok" ELSE "Err(InternalFailure)"]

\* SdkMeterProvider::force_flush(&self), reached through Deref
SdkForceFlush(p, sdkOk) ==
    IF p.is_shutdown THEN "Err(AlreadyShutdown)"
    ELSE IF sdkOk THEN "Ok" ELSE "Err(InternalFailure)"

---------------------------------------------------------------------------
(* The initialisers, as functions of the environment, their arguments and *)
(* the library's answer                                                    *)

\* pub struct OtelMeterProvider(SdkMeterProvider)
OtelMeterProvider(provider) == provider

\* mutant: a failed exporter build is not returned with `?`
init_http_with_timeout_period_no_try(e, url, timeout, period, buildOk) ==
    LET exporter == MetricExporterBuild("http", ExportConfig(url, timeout), buildOk)
        reader == PeriodicReaderBuild(exporter, period)
    IN  [ok |-> TRUE, ret |-> "Ok(OtelMeterProvider)",
         provider |-> OtelMeterProvider(MeterProviderBuild(runtime, reader)),
         reads |-> {}]

\* mutant: a timeout set in the environment replaces the argument
init_http_with_timeout_period_env(e, url, timeout, period, buildOk) ==
    LET t == Duration_from_secs(
                 SecsFromEnvOr(e, OTEL_EXPORTER_TIMEOUT_ENV, timeout.secs))
        exporter == MetricExporterBuild("http", ExportConfig(url, t), buildOk)
    IN  IF ~exporter.ok
        THEN [ok |-> FALSE, ret |-> "Err(ExporterBuildError)",
              provider |-> NoProvider, reads |-> {OTEL_EXPORTER_TIMEOUT_ENV}]
        ELSE LET reader == PeriodicReaderBuild(exporter, period)
             IN  [ok |-> TRUE, ret |-> "Ok(OtelMeterProvider)",
                  provider |-> OtelMeterProvider(MeterProviderBuild(runtime, reader)),
                  reads |-> {OTEL_EXPORTER_TIMEOUT_ENV}]

init_http_with_timeout_period(e, url, timeout, period, buildOk) ==
    LET exporter == MetricExporterBuild("http", ExportConfig(url, timeout), buildOk)
    IN  IF ~exporter.ok
        THEN [ok |-> FALSE, ret |-> "Err(ExporterBuildError)",
              provider |-> NoProvider, reads |-> {}]
        ELSE LET reader == PeriodicReaderBuild(exporter, period)
             IN  [ok |-> TRUE, ret |-> "Ok(OtelMeterProvider)",
                  provider |-> OtelMeterProvider(MeterProviderBuild(runtime, reader)),
                  reads |-> {}]

\* mutant: timeout and period change places
init_grpc_with_timeout_period_swapped(e, url, timeout, period, buildOk) ==
    LET exporter == MetricExporterBuild("grpc", ExportConfig(url, period), buildOk)
    IN  IF ~exporter.ok
        THEN [ok |-> FALSE, ret |-> "Err(ExporterBuildError)",
              provider |-> NoProvider, reads |-> {}]
        ELSE LET reader == PeriodicReaderBuild(exporter, timeout)
             IN  [ok |-> TRUE, ret |-> "Ok(OtelMeterProvider)",
                  provider |-> OtelMeterProvider(MeterProviderBuild(runtime, reader)),
                  reads |-> {}]

init_grpc_with_timeout_period(e, url, timeout, period, buildOk) ==
    LET exporter == MetricExporterBuild("grpc", ExportConfig(url, timeout), buildOk)
    IN  IF ~exporter.ok
        THEN [ok |-> FALSE, ret |-> "Err(ExporterBuildError)",
              provider |-> NoProvider, reads |-> {}]
        ELSE LET reader == PeriodicReaderBuild(exporter, period)
             IN  [ok |-> TRUE, ret |-> "Ok(OtelMeterProvider)",
                  provider |-> OtelMeterProvider(MeterProviderBuild(runtime, reader)),
                  reads |-> {}]

\* the variables timeout_and_period_from_env_or_default passes to var_os
DefaultsEnvReads == {OTEL_EXPORTER_TIMEOUT_ENV, OTEL_EXPORTER_INTERVAL_ENV}

\* mutant: the environment is read and the fixed defaults are passed on
init_http_fixed_defaults(e, url, buildOk) ==
    LET r == init_http_with_timeout_period(e, url,
                 Duration_from_secs(OTLP_TIMEOUT_DEFAULT_SECS),
                 Duration_from_secs(PERIOD_DEFAULT_SECS), buildOk)
    IN  [r EXCEPT !.reads = DefaultsEnvReads \cup @]

init_http(e, url, buildOk) ==
    LET tp == timeout_and_period_from_env_or_default(e)
        r == init_http_with_timeout_period(e, url, tp[1], tp[2], buildOk)
    IN  [r EXCEPT !.reads = DefaultsEnvReads \cup @]

init_grpc(e, url, buildOk) ==
    LET tp == timeout_and_period_from_env_or_default(e)
        r == init_grpc_with_timeout_period(e, url, tp[1], tp[2], buildOk)
    IN  [r EXCEPT !.reads = DefaultsEnvReads \cup @]

---------------------------------------------------------------------------
(* State *)

Slots == 1..MaxHandles

NoHandle == [state |-> "unused", pid |-> 0]
NoArgs ==
    [transport |-> "none", url |-> "none", timeout |-> Duration_from_secs(<<0>>),
     period |-> Duration_from_secs(<<0>>), buildOk |-> FALSE]
NoCall ==
    [op |-> "none", h |-> 0, ret |-> "none", discarded |-> "none",
     reads |-> {}, resolved |-> <<>>, args |-> NoArgs]

\* the slot the next handle is put in: handles are never reused
FreeSlots == {h \in Slots : handles[h].state = "unused"}
NextSlot == CHOOSE h \in FreeSlots : \A g \in FreeSlots : h <= g

\* mutant: every handle wraps one process-wide provider
SharedPid == CHOOSE p \in Slots : \A q \in Slots : p <= q

\* the provider a successful build makes is a new one
FreshPid == CHOOSE p \in Slots : ~providers[p].exists /\
                \A q \in Slots : ~providers[q].exists => p <= q

\* what a call of an initialiser leaves behind: on Err nothing, on Ok one
\* provider owned by one handle
Returned(op, r, args, resolved) ==
    /\ FreeSlots # {}
    /\ IF r.ok
       THEN /\ providers' = [providers EXCEPT ![FreshPid] = r.provider]
            /\ handles' = [handles EXCEPT ![NextSlot] =
                              [state |-> "live", pid |-> FreshPid]]
            /\ last' = [op |-> op, h |-> NextSlot, ret |-> r.ret,
                        discarded |-> "none", reads |-> r.reads,
                        resolved |-> resolved, args |-> args]
       ELSE /\ UNCHANGED <<providers, handles>>
            /\ last' = [op |-> op, h |-> 0, ret |-> r.ret,
                        discarded |-> "none", reads |-> r.reads,
                        resolved |-> resolved, args |-> args]
    /\ UNCHANGED <<env, manual>>

---------------------------------------------------------------------------
(* Actions *)

InitHttp(url, buildOk) ==
    LET tp == timeout_and_period_from_env_or_default(env)
    IN  Returned("init_http", init_http(env, url, buildOk),
                 [transport |-> "http", url |-> url, timeout |-> tp[1],
                  period |-> tp[2], buildOk |-> buildOk], tp)

InitHttpWithTimeoutPeriod(url, timeout, period, buildOk) ==
    Returned("init_http_with_timeout_period",
             init_http_with_timeout_period(env, url, timeout, period, buildOk),
             [transport |-> "http", url |-> url, timeout |-> timeout,
              period |-> period, buildOk |-> buildOk], <<>>)

InitGrpc(url, buildOk) ==
    LET tp == timeout_and_period_from_env_or_default(env)
    IN  Returned("init_grpc", init_grpc(env, url, buildOk),
                 [transport |-> "grpc", url |-> url, timeout |-> tp[1],
                  period |-> tp[2], buildOk |-> buildOk], tp)

InitGrpcWithTimeoutPeriod(url, timeout, period, buildOk) ==
    Returned("init_grpc_with_timeout_period",
             init_grpc_with_timeout_period(env, url, timeout, period, buildOk),
             [transport |-> "grpc", url |-> url, timeout |-> timeout,
              period |-> period, buildOk |-> buildOk], <<>>)

\* the resolution of the defaults on its own
ResolveDefaults ==
    /\ last.op = "none"
    /\ last' = [NoCall EXCEPT !.op = "timeout_and_period_from_env_or_default",
                              !.ret = "(timeout, period)",
                              !.reads = DefaultsEnvReads,
                              !.resolved = timeout_and_period_from_env_or_default(env)]
    /\ UNCHANGED <<env, handles, providers, manual>>

\* deref(&self) -> &SdkMeterProvider: the provider the handle wraps
deref(h) == handles[h].pid

\* handle.shutdown(): SdkMeterProvider::shutdown reached through Deref
DerefShutdown(h, sdkOk) ==
    /\ handles[h].state = "live"
    /\ manual[h] < MaxManual
    /\ LET s == SdkShutdown(providers[deref(h)], sdkOk)
       IN  /\ providers' = [providers EXCEPT ![deref(h)] = s.provider]
           /\ last' = [NoCall EXCEPT !.op = "shutdown", !.h = h, !.ret = s.result]
    /\ manual' = [manual EXCEPT ![h] = @ + 1]
    /\ UNCHANGED <<env, handles>>

\* handle.force_flush(): reached through Deref, changes no state of the handle
DerefForceFlush(h, sdkOk) ==
    /\ handles[h].state = "live"
    /\ last' = [NoCall EXCEPT !.op = "force_flush", !.h = h,
                              !.ret = SdkForceFlush(providers[deref(h)], sdkOk)]
    /\ UNCHANGED <<env, handles, providers, manual>>

\* mutant: the handle is released without shutting its provider down
drop_without_shutdown(h, sdkOk) ==
    /\ handles[h].state = "live"
    /\ last' = [NoCall EXCEPT !.op = "drop", !.h = h, !.ret = "()"]
    /\ handles' = [handles EXCEPT ![h].state = "dropped"]
    /\ UNCHANGED <<env, manual, providers>>

\* mutant: release skips the shutdown of a provider that is already shut down
drop_guarded(h, sdkOk) ==
    /\ handles[h].state = "live"
    /\ LET p == providers[handles[h].pid]
           s == SdkShutdown(p, sdkOk)
       IN  IF p.is_shutdown
           THEN /\ UNCHANGED providers
                /\ last' = [NoCall EXCEPT !.op = "drop", !.h = h, !.ret = "()"]
           ELSE /\ providers' = [providers EXCEPT ![handles[h].pid] = s.provider]
                /\ last' = [NoCall EXCEPT !.op = "drop", !.h = h, !.ret = "()",
                                          !.discarded = s.result]
    /\ handles' = [handles EXCEPT ![h].state = "dropped"]
    /\ UNCHANGED <<env, manual>>

\* mutant: the result of the shutdown is unwrapped
drop_unwrap(h, sdkOk) ==
    /\ handles[h].state = "live"
    /\ LET s == SdkShutdown(providers[handles[h].pid], sdkOk)
       IN  /\ providers' = [providers EXCEPT ![handles[h].pid] = s.provider]
           /\ last' = [NoCall EXCEPT !.op = "drop", !.h = h,
                                     !.ret = IF s.result = "Ok" THEN "()" ELSE "panic",
                                     !.discarded = s.result]
    /\ handles' = [handles EXCEPT ![h].state = "dropped"]
    /\ UNCHANGED <<env, manual>>

\* impl Drop: let _ = self.0.shutdown(); the result is discarded and drop
\* returns ()
drop(h, sdkOk) ==
    /\ handles[h].state = "live"
    /\ LET s == SdkShutdown(providers[handles[h].pid], sdkOk)
       IN  /\ providers' = [providers EXCEPT ![handles[h].pid] = s.provider]
           /\ last' = [NoCall EXCEPT !.op = "drop", !.h = h, !.ret = "()",
                                     !.discarded = s.result]
    /\ handles' = [handles EXCEPT ![h].state = "dropped"]
    /\ UNCHANGED <<env, manual>>

---------------------------------------------------------------------------
(* Inputs *)

DigitChar == [d \in 0..9 |-> CHOOSE c \in DOMAIN DigitValue : DigitValue[c] = d]
StrOfDigits(ds) == [i \in 1..Len(ds) |-> DigitChar[ds[i]]]

\* characters of the enumerated environment values: a zero, another digit,
\* the two signs and a letter
Alphabet == {"0", "7", "+", "-", "a"}

ShortStrings == UNION {[1..k -> Alphabet] : k \in 0..MaxLen}

\* u64::MAX, u64::MAX + 1, u64::MAX with a sign, and 21 characters worth 7
LongStrings ==
    {StrOfDigits(U64_MAX),
     StrOfDigits(<<1,8,4,4,6,7,4,4,0,7,3,7,0,9,5,5,1,6,1,6>>),
     <<"+">> \o StrOfDigits(U64_MAX),
     StrOfDigits(<<0,0,0,0,0,0,0,0,0,0,0,0,0,0,0,0,0,0,0,0,7>>)}

EnvValuesAll ==
    {Unset, NotUnicode} \cup {Unicode(s) : s \in ShortStrings \cup LongStrings}

EnvValuesSample ==
    {Unset, Unicode(<<"3", "0">>), Unicode(<<"a", "b", "c">>)}

Urls == {"http://localhost:4318", "not a url"}

Durations == {Duration_from_secs(<<5>>), Duration_from_secs(<<1, 0>>)}

---------------------------------------------------------------------------
(* Specifications *)

InitState ==
    /\ handles = [h \in Slots |-> NoHandle]
    /\ providers = [p \in Slots |-> NoProvider]
    /\ manual = [h \in Slots |-> 0]
    /\ last = NoCall

\* The life of the handles: initialisation through the four entry points,
\* calls through Deref, and release.
Init ==
    /\ env \in {[n \in EnvNames |-> Unset],
                [n \in EnvNames |->
                    IF n = OTEL_EXPORTER_INTERVAL_ENV
                    THEN Unicode(<<"3", "0">>) ELSE Unset]}
    /\ InitState

Next ==
    \/ \E ok \in BOOLEAN : InitHttp("http://localhost:4318", ok)
    \/ \E ok \in BOOLEAN :
          InitHttpWithTimeoutPeriod("http://localhost:4318",
              Duration_from_secs(<<5>>), Duration_from_secs(<<1, 0>>), ok)
    \/ \E ok \in BOOLEAN : InitGrpc("http://localhost:4317", ok)
    \/ \E ok \in BOOLEAN :
          InitGrpcWithTimeoutPeriod("http://localhost:4317",
              Duration_from_secs(<<5>>), Duration_from_secs(<<1, 0>>), ok)
    \/ \E h \in Slots, ok \in BOOLEAN : DerefShutdown(h, ok)
    \/ \E h \in Slots, ok \in BOOLEAN : DerefForceFlush(h, ok)
    \/ \E h \in Slots, ok \in BOOLEAN : drop(h, ok)

Spec == Init /\ [][Next]_vars

\* One call of an initialiser, over every destination, duration, library
\* answer and sampled environment.
InitCalls ==
    /\ env \in [EnvNames -> EnvValuesSample]
    /\ InitState

NextCalls ==
    /\ FreeSlots = Slots
    /\ \/ \E u \in Urls, ok \in BOOLEAN : InitHttp(u, ok)
       \/ \E u \in Urls, t \in Durations, p \in Durations, ok \in BOOLEAN :
             InitHttpWithTimeoutPeriod(u, t, p, ok)
       \/ \E u \in Urls, ok \in BOOLEAN : InitGrpc(u, ok)
       \/ \E u \in Urls, t \in Durations, p \in Durations, ok \in BOOLEAN :
             InitGrpcWithTimeoutPeriod(u, t, p, ok)

SpecCalls == InitCalls /\ [][NextCalls]_vars

\* The resolution of the defaults, over every enumerated environment.
InitEnv ==
    /\ env \in [EnvNames -> EnvValuesAll]
    /\ InitState

NextEnv == ResolveDefaults

SpecEnv == InitEnv /\ [][NextEnv]_vars

---------------------------------------------------------------------------
(* Claims about the life of a handle (specification Spec) *)

Used == {h \in Slots : handles[h].state # "unused"}
ProviderOf(h) == providers[handles[h].pid]
InitOps ==
    {"init_http", "init_http_with_timeout_period",
     "init_grpc", "init_grpc_with_timeout_period"}
ExplicitOps == {"init_http_with_timeout_period", "init_grpc_with_timeout_period"}

\* C1: the step that releases a handle invokes the shutdown of the provider
\* the handle wraps exactly once: the provider's count of received shutdown
\* calls grows by one, not by zero and not by more.
C1_ReleaseInvokesShutdownOnce ==
    [][\A h \in Slots :
          (handles[h].state = "live" /\ handles'[h].state = "dropped")
          => providers'[handles[h].pid].shutdownCalls
                 = providers[handles[h].pid].shutdownCalls + 1]_vars

C1_Witness ==
    \E h \in Slots :
        /\ handles[h].state = "dropped"
        /\ last.op = "drop" /\ last.h = h
        /\ manual[h] = 0
        /\ ProviderOf(h).shutdownCalls = 1

\* C2 as claimed: after any calls through a handle followed by its release,
\* the wrapped provider's shutdown has been invoked at most once in total.
C2_ShutdownInvokedAtMostOnce ==
    \A h \in Used :
        handles[h].state = "dropped" => ProviderOf(h).shutdownCalls <= 1

\* C2 as amended: the handle keeps no already-shut-down flag. Every manual
\* shutdown through the handle and the release each invoke the provider's
\* shutdown, so the provider receives (manual calls) + (1 once released)
\* invocations; only the library's own guard keeps the provider from being
\* stopped more than once.
C2_ReleaseAlwaysInvokesShutdown ==
    \A h \in Used :
        /\ ProviderOf(h).shutdownCalls
               = manual[h] + (IF handles[h].state = "dropped" THEN 1 ELSE 0)
        /\ ProviderOf(h).stops <= 1
        /\ ProviderOf(h).stops = 1 <=> ProviderOf(h).shutdownCalls >= 1

C2_Witness ==
    \E h \in Slots :
        /\ handles[h].state = "dropped"
        /\ manual[h] >= 1
        /\ ProviderOf(h).shutdownCalls = manual[h] + 1
        /\ ProviderOf(h).stops = 1

\* C3: when a handle is released after the caller shut it down manually, the
\* redundant shutdown made by the release fails in the library, the failure
\* is discarded, and the release returns normally with the handle gone.
C3_RedundantShutdownSwallowed ==
    (last.op = "drop" /\ manual[last.h] >= 1)
    => /\ last.discarded = "Err(AlreadyShutdown)"
       /\ last.ret = "()"
       /\ handles[last.h].state = "dropped"

C3_Witness ==
    /\ last.op = "drop"
    /\ manual[last.h] = 2
    /\ last.discarded = "Err(AlreadyShutdown)"
    /\ last.ret = "()"

\* C6: a call of an initialiser whose exporter build fails returns the build
\* error and creates nothing (no handle, no provider, so no running reader and
\* no shutdown); a call whose build succeeds returns one new handle owning one
\* new provider, running and never shut down, and touches nothing else.
C6_AllOrNothing ==
    [][last'.op \in InitOps =>
          IF ~last'.args.buildOk
          THEN /\ last'.ret = "Err(ExporterBuildError)"
               /\ last'.h = 0
               /\ handles' = handles
               /\ providers' = providers
          ELSE /\ last'.ret = "Ok(OtelMeterProvider)"
               /\ \E h \in Slots :
                     /\ last'.h = h
                     /\ handles[h].state = "unused"
                     /\ handles'[h].state = "live"
                     /\ \A g \in Slots \ {h} : handles'[g] = handles[g]
                     /\ \E p \in Slots :
                           /\ handles'[h].pid = p
                           /\ ~providers[p].exists
                           /\ providers'[p].exists
                           /\ providers'[p].running
                           /\ providers'[p].shutdownCalls = 0
                           /\ \A q \in Slots \ {p} : providers'[q] = providers[q]]_vars

C6_Witness ==
    /\ last.op = "init_grpc_with_timeout_period"
    /\ ~last.args.buildOk
    /\ last.ret = "Err(ExporterBuildError)"
    /\ \E h \in Slots : handles[h].state = "live"
    /\ \E p \in Slots : ~providers[p].exists

\* C10: handles own distinct providers, and a release of, or a manual
\* shutdown through, one handle leaves every other handle and the provider of
\* every other handle as they were.
C10_OtherHandlesUntouched ==
    [][/\ \A h, g \in Slots :
             (handles'[h].state # "unused" /\ handles'[g].state # "unused" /\ h # g)
             => handles'[h].pid # handles'[g].pid
       /\ last'.op \in {"drop", "shutdown"} =>
             \A g \in Slots \ {last'.h} :
                 /\ handles'[g] = handles[g]
                 /\ handles[g].state # "unused"
                    => providers'[handles[g].pid] = providers[handles[g].pid]]_vars

C10_Witness ==
    \E h, g \in Slots :
        /\ h # g
        /\ last.op = "drop" /\ last.h = h
        /\ handles[h].state = "dropped"
        /\ handles[g].state = "live"
        /\ ProviderOf(g).running
        /\ ~ProviderOf(g).is_shutdown

---------------------------------------------------------------------------
(* Claims about one call of an initialiser (specification SpecCalls) *)

\* the explicit-parameter initialiser of a transport, as a function
WithTimeoutPeriod(transport, e, url, timeout, period, buildOk) ==
    IF transport = "http"
    THEN init_http_with_timeout_period(e, url, timeout, period, buildOk)
    ELSE init_grpc_with_timeout_period(e, url, timeout, period, buildOk)

\* what the last call returned and created
LastOutcome ==
    [ret |-> last.ret,
     provider |-> IF last.h = 0 THEN NoProvider ELSE ProviderOf(last.h),
     created |-> Cardinality({p \in Slots : providers[p].exists})]

OutcomeOf(r) ==
    [ret |-> r.ret, provider |-> r.provider, created |-> IF r.ok THEN 1 ELSE 0]

\* C7: init_http(url) and init_grpc(url) end as the explicit-parameter
\* initialiser of the same transport does when it is given url and the
\* timeout and period resolved from the environment: the same error, or a
\* handle whose provider has the same endpoint, timeout, period and protocol.
C7_InitDelegates ==
    last.op \in {"init_http", "init_grpc"} =>
        LET tp == timeout_and_period_from_env_or_default(env)
        IN  LastOutcome = OutcomeOf(
                WithTimeoutPeriod(last.args.transport, env, last.args.url,
                                  tp[1], tp[2], last.args.buildOk))

C7_Witness ==
    /\ last.op = "init_http"
    /\ last.ret = "Ok(OtelMeterProvider)"
    /\ env[OTEL_EXPORTER_INTERVAL_ENV] = Unicode(<<"3", "0">>)
    /\ env[OTEL_EXPORTER_TIMEOUT_ENV] = Unicode(<<"a", "b", "c">>)
    /\ ProviderOf(last.h).interval = Duration_from_secs(<<3, 0>>)
    /\ ProviderOf(last.h).timeout = Duration_from_secs(OTLP_TIMEOUT_DEFAULT_SECS)

\* C8: a successful explicit-parameter call configures endpoint = url,
\* request timeout = timeout and flush interval = period, unchanged; both
\* transports select the protocol constant HttpBinary, and the two variants'
\* providers differ in the transport alone.
C8_ConfiguredFromArguments ==
    (last.op \in ExplicitOps /\ last.ret = "Ok(OtelMeterProvider)") =>
        LET p == ProviderOf(last.h)
            a == last.args
        IN  /\ p.endpoint = a.url
            /\ p.timeout = a.timeout
            /\ p.interval = a.period
            /\ p.protocol = "HttpBinary"
            /\ p.transport = a.transport
            /\ p.running
            /\ [init_http_with_timeout_period(env, a.url, a.timeout, a.period,
                    TRUE).provider EXCEPT !.transport = "grpc"]
               = init_grpc_with_timeout_period(env, a.url, a.timeout, a.period,
                    TRUE).provider

C8_Witness ==
    /\ last.op = "init_grpc_with_timeout_period"
    /\ last.ret = "Ok(OtelMeterProvider)"
    /\ last.args.timeout # last.args.period
    /\ ProviderOf(last.h).protocol = "HttpBinary"
    /\ ProviderOf(last.h).transport = "grpc"

\* C9: an explicit-parameter call reads no environment variable, and what it
\* returns and creates is what it would be under any other environment.
C9_ExplicitIgnoresEnvironment ==
    last.op \in ExplicitOps =>
        /\ last.reads = {}
        /\ \A e \in [EnvNames -> EnvValuesSample] :
              LastOutcome = OutcomeOf(
                  WithTimeoutPeriod(last.args.transport, e, last.args.url,
                      last.args.timeout, last.args.period, last.args.buildOk))

C9_Witness ==
    /\ last.op = "init_http_with_timeout_period"
    /\ last.ret = "Ok(OtelMeterProvider)"
    /\ env[OTEL_EXPORTER_TIMEOUT_ENV] = Unicode(<<"3", "0">>)
    /\ env[OTEL_EXPORTER_INTERVAL_ENV] = Unicode(<<"3", "0">>)
    /\ ProviderOf(last.h).timeout = Duration_from_secs(<<5>>)
    /\ ProviderOf(last.h).interval = Duration_from_secs(<<1, 0>>)

---------------------------------------------------------------------------
(* Claims about the resolution of the defaults (specification SpecEnv) *)

\* the decimal notation of a non-negative integer: digits, after at most one "+"
Unsigned(s) == IF s # <<>> /\ Head(s) = "+" THEN Tail(s) ELSE s
IsDecimal(s) ==
    /\ Unsigned(s) # <<>>
    /\ \A i \in 1..Len(Unsigned(s)) : IsDigit(Unsigned(s)[i])

RECURSIVE StripZeros(_)
StripZeros(ds) ==
    IF Len(ds) > 1 /\ Head(ds) = 0 THEN StripZeros(Tail(ds)) ELSE ds

\* the integer a decimal notation denotes, of any size
DecimalValue(s) ==
    StripZeros([i \in 1..Len(Unsigned(s)) |-> DigitValue[Unsigned(s)[i]]])

NotParsable(v) == v.kind # "unicode" \/ ~IsDecimal(v.str)

DefaultSecs(name) ==
    IF name = OTEL_EXPORTER_TIMEOUT_ENV
    THEN OTLP_TIMEOUT_DEFAULT_SECS ELSE PERIOD_DEFAULT_SECS

ResolvedFor(name) ==
    IF name = OTEL_EXPORTER_TIMEOUT_ENV THEN last.resolved[1] ELSE last.resolved[2]

Other(name) ==
    IF name = OTEL_EXPORTER_TIMEOUT_ENV
    THEN OTEL_EXPORTER_INTERVAL_ENV ELSE OTEL_EXPORTER_TIMEOUT_ENV

Resolved == last.op = "timeout_and_period_from_env_or_default"

\* C4: the resolution always returns a pair; a variable that is unset, not
\* Unicode or not the notation of a non-negative integer resolves to its
\* default (the library's timeout default, 60 seconds for the period); and
\* the value resolved for one variable is the same whatever the other holds.
C4_FallbackPerVariable ==
    Resolved =>
        /\ last.ret = "(timeout, period)"
        /\ Len(last.resolved) = 2
        /\ \A name \in EnvNames :
              /\ NotParsable(env[name])
                 => ResolvedFor(name) = Duration_from_secs(DefaultSecs(name))
              /\ \A v \in EnvValuesAll :
                    LET tp == timeout_and_period_from_env_or_default(
                                  [env EXCEPT ![Other(name)] = v])
                    IN  ResolvedFor(name) =
                            IF name = OTEL_EXPORTER_TIMEOUT_ENV THEN tp[1] ELSE tp[2]

C4_Witness ==
    /\ Resolved
    /\ env[OTEL_EXPORTER_TIMEOUT_ENV] = Unicode(<<"-", "7">>)
    /\ env[OTEL_EXPORTER_INTERVAL_ENV] = Unicode(<<"7", "0">>)
    /\ last.resolved = <<Duration_from_secs(OTLP_TIMEOUT_DEFAULT_SECS),
                         Duration_from_secs(<<7, 0>>)>>

\* C5 as claimed: every variable set to the notation of a non-negative
\* integer n resolves to exactly n seconds.
C5_EveryIntegerResolvesToItself ==
    Resolved =>
        \A name \in EnvNames :
            (env[name].kind = "unicode" /\ IsDecimal(env[name].str))
            => ResolvedFor(name) = Duration_from_secs(DecimalValue(env[name].str))

\* C5 as amended: a variable set to the notation of an integer n with
\* 0 <= n <= 2^64 - 1 resolves to exactly n seconds, n = 0 included; the
\* notation of an integer above 2^64 - 1 resolves to the default, as an
\* absent or unparsable value does.
C5_IntegerInU64ResolvesToItself ==
    Resolved =>
        \A name \in EnvNames :
            (env[name].kind = "unicode" /\ IsDecimal(env[name].str))
            => ResolvedFor(name) =
                   IF U64Leq(DecimalValue(env[name].str), U64_MAX)
                   THEN Duration_from_secs(DecimalValue(env[name].str))
                   ELSE Duration_from_secs(DefaultSecs(name))

C5_Witness ==
    /\ Resolved
    /\ env[OTEL_EXPORTER_TIMEOUT_ENV] = Unicode(<<"0">>)
    /\ env[OTEL_EXPORTER_INTERVAL_ENV] = Unicode(StrOfDigits(U64_MAX))
    /\ last.resolved = <<Duration_from_secs(<<0>>), Duration_from_secs(U64_MAX)>>

====
